---------------------------- MODULE Spec2Model ----------------------------
(***************************************************************************)
(* A model of the thread scheduler of src/threads/thread.c: the thread     *)
(* state machine, the priority-ordered ready list, the sleep list, the     *)
(* destruction list, the timer tick and priority donation.                 *)
(*                                                                         *)
(* One CPU.  A thread is identified with its tid (tids are never reused,   *)
(* allocate_tid), so per-thread fields are functions over tids.  The       *)
(* running thread executes one kernel call per step, up to the point where *)
(* the call returns or the thread is switched out inside it; pc[t] records *)
(* the call a switched-out thread is inside, and the thread finishes that  *)
(* call when it is dispatched again.  The timer interrupt is taken between *)
(* calls, in two steps: the handler body (interrupt context) and the       *)
(* return from the interrupt, which yields when the handler asked for it.  *)
(*                                                                         *)
(* The lock primitive (synch.c) and the timer (timer.c) are not part of    *)
(* thread.c; lock_acquire, lock_release, the idle_started semaphore and    *)
(* timer_interrupt are modelled from the specification's description of    *)
(* how they call into the scheduler.                                       *)
(***************************************************************************)
EXTENDS Integers, Sequences, FiniteSets, TLC

VARIABLES
  status,          \* t -> NONE (no such thread yet), RUNNING, READY, BLOCKED, DYING, FREED
  priority,        \* t -> effective priority
  init_priority,   \* t -> priority last set explicitly
  wait_on_lock,    \* t -> lock t is recorded as waiting on, or NoLock
  donations,       \* t -> the threads on t's donations list
  wakeup,          \* t -> tick at which a sleeping t is to be woken
  pc,              \* t -> the call t is inside
  acq,             \* t -> the lock argument of t's lock_acquire in progress
  child,           \* t -> the thread t's thread_create in progress has made
  child_higher,    \* t -> that thread was made with a priority above t's own
  ready_list,      \* sequence of threads
  sleep_list,      \* sequence of threads
  destruction_req, \* sequence of threads
  running,         \* running_thread(): the thread whose stack the CPU is on
  idle_thread,     \* NoThread until idle() stores itself
  thread_ticks,    \* timer ticks since the last schedule()
  next_tid,        \* allocate_tid's static counter
  holder,          \* lock -> holder or NoThread
  value,           \* lock -> value of the lock's semaphore
  waiters,         \* lock -> sequence of threads blocked on the semaphore
  ticks,           \* timer ticks since boot
  intr_context,    \* TRUE inside the timer interrupt handler
  yield_on_return, \* intr_yield_on_return() was called by the handler
  scheduled,       \* TRUE iff the last step ended in schedule()
  calls,           \* t -> number of kernel calls t's thread function has made
  intr_level,      \* "ON" or "OFF": intr_get_level()
  tid_error,       \* TRUE iff the last step was a thread_create that returned
                   \*      TID_ERROR
  sched_tick,      \* the value of ticks at the last schedule()
  front_of_empty,  \* TRUE iff the last step read the front of an empty
                   \*      ready list
  sp_donors,       \* t -> the donors that outranked the new priority at t's
                   \*      last thread_set_priority and that t's priority matched
  fault            \* "none", or the kernel has stopped on a fault

vars == <<status, priority, init_priority, wait_on_lock, donations, wakeup,
          pc, acq, child, child_higher, ready_list, sleep_list, destruction_req, running,
          idle_thread, thread_ticks, next_tid, holder, value, waiters, ticks,
          intr_context, yield_on_return, scheduled, calls, intr_level,
          tid_error, sp_donors, sched_tick, front_of_empty, fault>>

---------------------------------------------------------------------------
(* Bounds of the model *)

\* Number of thread slots: main, idle and the threads created afterwards.
MaxThreads == 4
\* Number of locks the threads contend for.
NumLocks == 2
\* The timer stops after this many ticks.
MaxTicks == 4
\* A thread function makes at most this many kernel calls before it exits
\* or runs on without calling the kernel.
MaxCalls == 2
\* Longest holder chain of the donation-walk specification.
MaxChain == 10
\* Kernel calls per thread function in the lock-protocol specification.
MaxLockCalls == 4

(* Program constants *)

TIME_SLICE == 4
DONATION_DEPTH == 8
PRI_MIN == 0
PRI_DEFAULT == 31

NoThread == 0
NoLock == 0

\* The tid thread_init gives the initial thread.
initial_thread == 1

\* Priorities handed to thread_create and thread_set_priority.
Prios == {20, PRI_DEFAULT, 40}

\* Priorities handed to thread_create and thread_set_priority in the
\* lock-protocol specification.
LockPrios == Prios \cup {50}

\* How far ahead of the current tick a sleeper sets its wake tick.
SleepAhead == {1, 2}

\* The thread slots and the locks of the state at hand.
Threads == DOMAIN status
Locks == DOMAIN holder

---------------------------------------------------------------------------
(* The state as one record, so that the code's functions are operators     *)
(* from state to state.                                                    *)

Cur ==
  [status |-> status, priority |-> priority, init_priority |-> init_priority,
   wait_on_lock |-> wait_on_lock, donations |-> donations, wakeup |-> wakeup,
   pc |-> pc, acq |-> acq, child |-> child, child_higher |-> child_higher,
   ready_list |-> ready_list,
   sleep_list |-> sleep_list, destruction_req |-> destruction_req,
   running |-> running, idle_thread |-> idle_thread,
   thread_ticks |-> thread_ticks, next_tid |-> next_tid, holder |-> holder,
   value |-> value, waiters |-> waiters, ticks |-> ticks,
   intr_context |-> intr_context, yield_on_return |-> yield_on_return,
   scheduled |-> scheduled, calls |-> calls, intr_level |-> intr_level,
   tid_error |-> tid_error,
   sp_donors |-> sp_donors, sched_tick |-> sched_tick,
   front_of_empty |-> front_of_empty, fault |-> fault]

Commit(s) ==
  /\ status' = s.status
  /\ priority' = s.priority
  /\ init_priority' = s.init_priority
  /\ wait_on_lock' = s.wait_on_lock
  /\ donations' = s.donations
  /\ wakeup' = s.wakeup
  /\ pc' = s.pc
  /\ acq' = s.acq
  /\ child' = s.child
  /\ child_higher' = s.child_higher
  /\ ready_list' = s.ready_list
  /\ sleep_list' = s.sleep_list
  /\ destruction_req' = s.destruction_req
  /\ running' = s.running
  /\ idle_thread' = s.idle_thread
  /\ thread_ticks' = s.thread_ticks
  /\ next_tid' = s.next_tid
  /\ holder' = s.holder
  /\ value' = s.value
  /\ waiters' = s.waiters
  /\ ticks' = s.ticks
  /\ intr_context' = s.intr_context
  /\ yield_on_return' = s.yield_on_return
  /\ scheduled' = s.scheduled
  /\ calls' = s.calls
  /\ intr_level' = s.intr_level
  /\ tid_error' = s.tid_error
  /\ sp_donors' = s.sp_donors
  /\ sched_tick' = s.sched_tick
  /\ front_of_empty' = s.front_of_empty
  /\ fault' = s.fault

Range(q) == {q[i] : i \in 1..Len(q)}

Remove(q, t) == SelectSeq(q, LAMBDA x : x # t)

Max(S) == CHOOSE x \in S : \A y \in S : y <= x

---------------------------------------------------------------------------
(* thread.c *)

\* thread_compare_priority on two ready-list elements: a goes before b iff
\* a's priority is strictly greater.  (The list_empty() test on the thread
\* structures compares a word of the thread's own page with an address
\* inside it and is false for every thread the model has.)
thread_compare_priority(pa, pb) == pa > pb

\* list_insert_ordered(list, &t->elem, thread_compare_priority, 0): t goes
\* before the first element that t compares less than, else at the end.
list_insert_ordered(list, t, pri) ==
  LET before == {i \in 1..Len(list) :
                   thread_compare_priority(pri[t], pri[list[i]])}
      at == IF before = {} THEN Len(list) + 1
            ELSE CHOOSE i \in before : \A j \in before : i <= j
  IN SubSeq(list, 1, at - 1) \o <<t>> \o SubSeq(list, at, Len(list))

\* init_thread, for the thread in slot t.
init_thread(s, t, prio, entry) ==
  [s EXCEPT !.status[t] = "BLOCKED",
            !.priority[t] = prio,
            !.init_priority[t] = prio,
            !.wait_on_lock[t] = NoLock,
            !.donations[t] = {},
            !.pc[t] = entry]

\* A thread_unblock() that enables interrupts on exit whatever the level
\* on entry was.
thread_unblock_enables(s, t) ==
  [s EXCEPT !.ready_list = list_insert_ordered(s.ready_list, t, s.priority),
            !.status[t] = "READY",
            !.intr_level = "ON"]

\* thread_unblock(t).
thread_unblock(s, t) ==
  LET old_level == s.intr_level
      s1 == [s EXCEPT !.intr_level = "OFF"]
      s2 == [s1 EXCEPT
               !.ready_list = list_insert_ordered(s1.ready_list, t, s1.priority),
               !.status[t] = "READY"]
  IN [s2 EXCEPT !.intr_level = old_level]

\* next_thread_to_run: the thread picked; the pop is in schedule below.
next_thread_to_run(s) ==
  IF s.ready_list = <<>> THEN s.idle_thread ELSE Head(s.ready_list)

\* The position a thread starts from when it is dispatched: kernel_thread
\* enters the thread function the first time, a later dispatch resumes
\* the call the thread was switched out in.
Dispatched(p) ==
  CASE p = "new" -> "run"
    [] p = "idle_new" -> "idle_start"
    [] OTHER -> p

\* A schedule() that leaves the picked thread on the ready list: the
\* variant One-Running tells apart from the code.
schedule_without_pop(s) ==
  LET next == next_thread_to_run(s)
  IN [s EXCEPT !.status[next] = "RUNNING",
               !.thread_ticks = 0,
               !.sched_tick = s.ticks,
               !.running = next,
               !.pc[next] = Dispatched(s.pc[next]),
               !.scheduled = TRUE]

\* The positions at which a thread runs with interrupts on: in its thread
\* function between kernel calls, between the donation and sema_down, in
\* thread_test_max_priority before and after list_empty, and in idle()
\* outside thread_block.
LevelOnAt == {"run", "donated", "start_enabled", "idle_start", "idle_up",
              "idle_block", "idle_hlt", "test_empty", "test_front"}

\* schedule().  It runs with interrupts off and switches to next, which
\* goes on from where it was switched out: kernel_thread enables
\* interrupts on a first dispatch, a thread preempted by the timer returns
\* from the interrupt (interrupts on again), and a thread switched out
\* inside a call is back in that call with interrupts still off.
schedule(s) ==
  LET curr == s.running
      next == next_thread_to_run(s)
      rl == IF s.ready_list = <<>> THEN <<>> ELSE Tail(s.ready_list)
      dq == IF curr # next /\ s.status[curr] = "DYING" /\ curr # initial_thread
            THEN Append(s.destruction_req, curr)
            ELSE s.destruction_req
  IN [s EXCEPT !.ready_list = rl,
               !.status[next] = "RUNNING",
               !.thread_ticks = 0,
               !.sched_tick = s.ticks,
               !.destruction_req = dq,
               !.running = next,
               !.pc[next] = Dispatched(s.pc[next]),
               !.intr_level = IF Dispatched(s.pc[next]) \in LevelOnAt
                              THEN "ON" ELSE "OFF",
               !.scheduled = TRUE]

\* do_schedule(status): frees the pages queued for destruction first.
do_schedule(s, st) ==
  LET victims == Range(s.destruction_req)
      freed == [t \in DOMAIN s.status |->
                  IF t \in victims THEN "FREED" ELSE s.status[t]]
  IN schedule([s EXCEPT !.destruction_req = <<>>,
                        !.status = [freed EXCEPT ![s.running] = st]])

\* thread_block().
thread_block(s) == schedule([s EXCEPT !.status[s.running] = "BLOCKED"])

\* A thread_yield() without the test for the idle thread.
thread_yield_inserts_idle(s) ==
  LET cur == s.running
      old_level == s.intr_level
      rl == list_insert_ordered(s.ready_list, cur, s.priority)
      r == do_schedule([s EXCEPT !.ready_list = rl, !.intr_level = "OFF"],
                       "READY")
  IN IF r.running = cur THEN [r EXCEPT !.intr_level = old_level] ELSE r

\* thread_yield().
thread_yield(s) ==
  LET cur == s.running
      old_level == s.intr_level
      rl == IF cur # s.idle_thread
            THEN list_insert_ordered(s.ready_list, cur, s.priority)
            ELSE s.ready_list
      r == do_schedule([s EXCEPT !.ready_list = rl, !.intr_level = "OFF"],
                       "READY")
  IN IF r.running = cur THEN [r EXCEPT !.intr_level = old_level] ELSE r

\* A thread_test_max_priority() that never yields.
test_max_priority_never_yields(s) == s

\* A thread_test_max_priority() that also yields to a front of equal
\* priority.
test_max_priority_yields_on_equal(s) ==
  IF s.ready_list = <<>> THEN s
  ELSE IF s.priority[s.running] <= s.priority[Head(s.ready_list)]
       THEN thread_yield(s)
       ELSE s

\* thread_test_max_priority().
thread_test_max_priority(s) ==
  IF s.ready_list = <<>> THEN s
  ELSE IF s.priority[s.running] < s.priority[Head(s.ready_list)]
       THEN thread_yield(s)
       ELSE s

\* thread_sleep(ticks).
thread_sleep(s, w) ==
  LET cur == s.running
  IN thread_block([s EXCEPT !.intr_level = "OFF",
                            !.wakeup[cur] = w,
                            !.sleep_list = Append(s.sleep_list, cur)])

\* A scan that stops at the first sleeper whose time has not come, as a
\* scan of a list ordered by wake-up time would.
RECURSIVE awake_scan_until_later(_, _, _)
awake_scan_until_later(s, rest, now) ==
  IF rest = <<>> THEN s
  ELSE LET t == Head(rest)
       IN IF s.wakeup[t] <= now
          THEN awake_scan_until_later(
                 thread_unblock(
                   [s EXCEPT !.sleep_list = Remove(s.sleep_list, t)], t),
                 Tail(rest), now)
          ELSE s

\* thread_awake(ticks): one pass over the sleep list, front to back.
RECURSIVE awake_scan(_, _, _)
awake_scan(s, rest, now) ==
  IF rest = <<>> THEN s
  ELSE LET t == Head(rest)
       IN IF s.wakeup[t] <= now
          THEN awake_scan(
                 thread_unblock(
                   [s EXCEPT !.sleep_list = Remove(s.sleep_list, t)], t),
                 Tail(rest), now)
          ELSE awake_scan(s, Tail(rest), now)

\* A thread_awake() that leaves the threads it wakes on the sleep list.
thread_awake_keeps_listed(s, now) ==
  [awake_scan(s, s.sleep_list, now) EXCEPT !.sleep_list = s.sleep_list]

\* A thread_awake() that wakes sleepers one tick early.
thread_awake_one_tick_early(s, now) == awake_scan(s, s.sleep_list, now + 1)

thread_awake(s, now) == awake_scan(s, s.sleep_list, now)

\* A thread_tick() that asks for the yield one tick late.
thread_tick_after_slice(s) ==
  LET n == s.thread_ticks + 1
  IN [s EXCEPT !.thread_ticks = n,
               !.yield_on_return = IF n > TIME_SLICE THEN TRUE ELSE @]

\* thread_tick(): the time-slice test (the statistics are not modelled).
thread_tick(s) ==
  LET n == s.thread_ticks + 1
  IN [s EXCEPT !.thread_ticks = n,
               !.yield_on_return = IF n >= TIME_SLICE THEN TRUE ELSE @]

\* A donation walk that goes one level deeper than the code's.
RECURSIVE donate_walk_nine_levels(_, _, _, _)
donate_walk_nine_levels(s, t, prio, depth) ==
  IF depth >= DONATION_DEPTH + 1 \/ s.wait_on_lock[t] = NoLock THEN s
  ELSE LET h == s.holder[s.wait_on_lock[t]]
       IN IF h = NoThread THEN [s EXCEPT !.fault = "null_deref"]
          ELSE donate_walk_nine_levels([s EXCEPT !.priority[h] = prio],
                                       h, prio, depth + 1)

\* donate_priority(): the walk from thread t at the given depth.  A lock on
\* the walk whose holder is NULL makes the code write through a null
\* pointer; the kernel stops there.
RECURSIVE donate_walk(_, _, _, _)
donate_walk(s, t, prio, depth) ==
  IF depth >= DONATION_DEPTH \/ s.wait_on_lock[t] = NoLock THEN s
  ELSE LET h == s.holder[s.wait_on_lock[t]]
       IN IF h = NoThread THEN [s EXCEPT !.fault = "null_deref"]
          ELSE donate_walk([s EXCEPT !.priority[h] = prio], h, prio, depth + 1)

donate_priority(s) == donate_walk(s, s.running, s.priority[s.running], 0)

\* remove_with_lock(lock).
remove_with_lock(s, l) ==
  LET t == s.running
  IN [s EXCEPT !.donations[t] = {d \in @ : s.wait_on_lock[d] # l}]

\* The threads list_sort(&t->donations, thread_compare_priority, NULL) can
\* leave at the front.  The donations list links threads through
\* donation_elem, and thread_compare_priority converts each element with
\* list_entry(.., struct thread, elem): it compares words that lie at a
\* fixed offset from the donors' priority fields, not the priorities, so
\* the order it produces does not depend on the donors' priorities and any
\* donor can come first.
donations_sorted_front(s, t) == s.donations[t]

\* refresh_priority(): the states it can end in.
refresh_priority(s) ==
  LET t == s.running
      s1 == [s EXCEPT !.priority[t] = s.init_priority[t]]
  IN IF s.donations[t] = {} THEN {s1}
     ELSE {IF s1.priority[t] < s1.priority[m]
           THEN [s1 EXCEPT !.priority[t] = s1.priority[m]]
           ELSE s1 : m \in donations_sorted_front(s, t)}

\* A call that may have switched its caller out: when the caller is still
\* the running thread the call returns, otherwise the caller stays inside
\* the call named by its pc until it is dispatched again.
Returned(s, c) ==
  IF s.running = c
  THEN [s EXCEPT !.pc[c] = "run", !.child[c] = NoThread,
                 !.child_higher[c] = FALSE]
  ELSE s

\* thread_create, up to and including thread_unblock(t).
thread_create_unblock(s, prio, entry) ==
  LET c == s.running
      t == s.next_tid
      s1 == init_thread(s, t, prio, entry)
      s2 == [s1 EXCEPT !.next_tid = t + 1, !.pc[c] = "create", !.child[c] = t,
                       !.child_higher[c] = (prio > s.priority[c])]
  IN thread_unblock(s2, t)

\* thread_create(name, prio, function, aux) with a page available.
thread_create(s, prio, entry) ==
  Returned(thread_test_max_priority(thread_create_unblock(s, prio, entry)),
           s.running)

\* A thread_create that takes a tid before it finds that there is no page.
thread_create_no_page_takes_tid(s) ==
  [s EXCEPT !.next_tid = @ + 1, !.tid_error = TRUE]

\* thread_create(name, prio, function, aux) when palloc_get_page returns
\* NULL: it returns TID_ERROR before init_thread and allocate_tid.
thread_create_no_page(s) == [s EXCEPT !.tid_error = TRUE]

\* thread_set_priority, up to and including refresh_priority(): the
\* states it can be in then.
thread_set_priority_refresh(s, new) ==
  LET c == s.running
      s1 == [s EXCEPT !.init_priority[c] = new, !.pc[c] = "setprio",
                      !.sp_donors[c] =
                         {d \in s.donations[c] :
                            new < s.priority[d]
                            /\ s.priority[c] = s.priority[d]}]
  IN refresh_priority(s1)

\* thread_set_priority(new_priority): the states it can end in.
thread_set_priority(s, new) ==
  {Returned(thread_test_max_priority(r), s.running) :
     r \in thread_set_priority_refresh(s, new)}

\* thread_test_max_priority(), first statement: list_empty(&ready_list).
test_max_priority_empty(s) ==
  LET c == s.running
  IN IF s.ready_list = <<>>
     THEN Returned(s, c)
     ELSE [s EXCEPT !.pc[c] = "test_front"]

\* thread_test_max_priority(), after list_empty returned false:
\* list_front(&ready_list) and the comparison; the states it can end in.
\* The front of an empty list is the list's tail sentinel: the kernel stops
\* on list_front's assertion, or without it the comparison reads a
\* priority that is not a thread's and goes either way.
test_max_priority_front(s) ==
  LET c == s.running
      inside == [s EXCEPT !.pc[c] = IF s.child[c] # NoThread THEN "create"
                                    ELSE "setprio"]
      empty == [inside EXCEPT !.front_of_empty = TRUE]
  IN IF s.ready_list = <<>>
     THEN {[s EXCEPT !.front_of_empty = TRUE, !.fault = "list_front"],
           Returned(empty, c),
           Returned(thread_yield(empty), c)}
     ELSE IF s.priority[c] < s.priority[Head(s.ready_list)]
          THEN {Returned(thread_yield(inside), c)}
          ELSE {Returned(inside, c)}

\* thread_exit().
thread_exit(s) ==
  do_schedule([s EXCEPT !.pc[s.running] = "exited", !.intr_level = "OFF"],
              "DYING")

---------------------------------------------------------------------------
(* The lock primitive, as the specification describes its calls into the   *)
(* scheduler.                                                              *)

\* sema_down on the lock's semaphore, then the end of lock_acquire: with
\* the semaphore at 0 the caller queues and blocks, else it takes the lock.
sema_down(s, l) ==
  LET c == s.running
  IN IF s.value[l] = 0
     THEN thread_block([s EXCEPT !.waiters[l] = Append(@, c),
                                 !.pc[c] = "acquire"])
     ELSE [s EXCEPT !.value[l] = @ - 1,
                    !.intr_level = "ON",
                    !.wait_on_lock[c] = NoLock,
                    !.holder[l] = c,
                    !.acq[c] = NoLock,
                    !.pc[c] = "run"]

\* lock_acquire(lock), up to sema_down: with the lock held, the caller
\* records the wait, enters the holder's donations and donates.
lock_acquire(s, l) ==
  LET c == s.running
      h == s.holder[l]
      s1 == [s EXCEPT !.pc[c] = "donated", !.acq[c] = l]
  IN IF h # NoThread
     THEN donate_priority([s1 EXCEPT !.wait_on_lock[c] = l,
                                     !.donations[h] = @ \cup {c}])
     ELSE sema_down(s1, l)

\* sema_up on the lock's semaphore, waking waiter w (NoThread: no waiter).
sema_up(s, l, w) ==
  LET s1 == IF w = NoThread THEN s
            ELSE thread_unblock([s EXCEPT !.waiters[l] = Remove(@, w)], w)
  IN [s1 EXCEPT !.value[l] = @ + 1]

\* The waiters sema_up may wake.
Wakeable(s, l) ==
  IF s.waiters[l] = <<>> THEN {NoThread} ELSE Range(s.waiters[l])

\* lock_release(lock): the states it can end in.
lock_release(s, l) ==
  LET c == s.running
      s1 == [s EXCEPT !.pc[c] = "release"]
  IN {Returned(
        thread_test_max_priority(
          sema_up([r EXCEPT !.holder[l] = NoThread], l, w)), c) :
        r \in refresh_priority(remove_with_lock(s1, l)),
        w \in Wakeable(s, l)}

---------------------------------------------------------------------------
(* Initial state: thread_init() has made the running code the thread       *)
(* "main" with tid 1 and PRI_DEFAULT; the lists are empty.                 *)

Init ==
  /\ status = [t \in 1..MaxThreads |-> IF t = initial_thread THEN "RUNNING" ELSE "NONE"]
  /\ priority = [t \in 1..MaxThreads |-> IF t = initial_thread THEN PRI_DEFAULT ELSE 0]
  /\ init_priority = [t \in 1..MaxThreads |-> IF t = initial_thread THEN PRI_DEFAULT ELSE 0]
  /\ wait_on_lock = [t \in 1..MaxThreads |-> NoLock]
  /\ donations = [t \in 1..MaxThreads |-> {}]
  /\ wakeup = [t \in 1..MaxThreads |-> 0]
  /\ pc = [t \in 1..MaxThreads |-> IF t = initial_thread THEN "boot" ELSE "none"]
  /\ acq = [t \in 1..MaxThreads |-> NoLock]
  /\ child = [t \in 1..MaxThreads |-> NoThread]
  /\ child_higher = [t \in 1..MaxThreads |-> FALSE]
  /\ ready_list = <<>>
  /\ sleep_list = <<>>
  /\ destruction_req = <<>>
  /\ running = initial_thread
  /\ idle_thread = NoThread
  /\ thread_ticks = 0
  /\ next_tid = 2
  /\ holder = [l \in 1..NumLocks |-> NoThread]
  /\ value = [l \in 1..NumLocks |-> 1]
  /\ waiters = [l \in 1..NumLocks |-> <<>>]
  /\ ticks = 0
  /\ intr_context = FALSE
  /\ yield_on_return = FALSE
  /\ scheduled = FALSE
  /\ calls = [t \in 1..MaxThreads |-> 0]
  /\ intr_level = "OFF"
  /\ tid_error = FALSE
  /\ sp_donors = [t \in 1..MaxThreads |-> {}]
  /\ sched_tick = 0
  /\ front_of_empty = FALSE
  /\ fault = "none"

\* The running thread is between two kernel calls, in thread context.
CanCall ==
  /\ fault = "none"
  /\ ~intr_context
  /\ pc[running] = "run"

\* Every step starts from the state with the marks of the last step
\* (schedule() was entered, thread_create returned TID_ERROR, the front of
\* an empty ready list was read) cleared.
S0 == [Cur EXCEPT !.scheduled = FALSE, !.tid_error = FALSE,
                  !.front_of_empty = FALSE]

\* The running thread's function makes one more kernel call.
CanCallMore == CanCall /\ calls[running] < MaxCalls

SC == [S0 EXCEPT !.calls[running] = @ + 1]

\* thread_start(), first half: creates the idle thread, which enters the
\* ready list, and enables interrupts.
ThreadStart ==
  /\ fault = "none" /\ ~intr_context
  /\ pc[running] = "boot"
  /\ LET s1 == thread_create(S0, PRI_MIN, "idle_new")
     IN Commit([s1 EXCEPT !.pc[running] = "start_enabled",
                          !.intr_level = "ON"])

\* thread_start(), second half: sema_down(&idle_started) blocks the
\* initial thread, and the idle thread is dispatched.
StartWait ==
  /\ fault = "none" /\ ~intr_context
  /\ pc[running] = "start_enabled"
  /\ Commit(thread_block([S0 EXCEPT !.pc[running] = "start_wait",
                                    !.intr_level = "OFF"]))

\* idle(), first statement: the idle thread stores itself.
IdleStart ==
  /\ fault = "none" /\ ~intr_context
  /\ pc[running] = "idle_start"
  /\ Commit([S0 EXCEPT !.idle_thread = running, !.pc[running] = "idle_up"])

\* idle(): sema_up(idle_started) makes the initial thread ready.
IdleUp ==
  /\ fault = "none" /\ ~intr_context
  /\ pc[running] = "idle_up"
  /\ Commit(thread_unblock([S0 EXCEPT !.pc[running] = "idle_block"],
                           initial_thread))

\* idle(), the loop: intr_disable(); thread_block(); then "sti; hlt" when
\* the idle thread is dispatched again.
IdleBlock ==
  /\ fault = "none" /\ ~intr_context
  /\ pc[running] = "idle_block"
  /\ Commit(thread_block([S0 EXCEPT !.pc[running] = "idle_hlt",
                                    !.intr_level = "OFF"]))

\* A thread dispatched again inside a call it was switched out in returns
\* from that call.
Resume ==
  /\ fault = "none" /\ ~intr_context
  /\ pc[running] \in {"create", "yield", "setprio", "sleep", "release",
                      "start_wait"}
  /\ Commit([S0 EXCEPT !.pc[running] = "run", !.child[running] = NoThread,
                        !.child_higher[running] = FALSE,
                        !.intr_level = "ON"])

Create(prio) ==
  /\ CanCallMore
  /\ next_tid \in Threads
  /\ Commit(thread_create(SC, prio, "new"))

Yield ==
  /\ CanCallMore
  /\ Commit(Returned(thread_yield([SC EXCEPT !.pc[running] = "yield"]),
                     running))

\* A thread function returns, or calls thread_exit, holding no lock.
Exit ==
  /\ CanCall
  /\ \A l \in Locks : holder[l] # running
  /\ Commit(thread_exit(S0))

SetPriority(new) ==
  /\ CanCallMore
  /\ \E r \in thread_set_priority(SC, new) : Commit(r)

\* timer_sleep: thread_sleep with a wake tick ahead of the current tick.
Sleep(d) ==
  /\ CanCallMore
  /\ Commit(thread_sleep([SC EXCEPT !.pc[running] = "sleep"], ticks + d))

LockAcquire(l) ==
  /\ CanCallMore
  /\ holder[l] # running
  /\ Commit(lock_acquire(SC, l))

\* lock_acquire goes on to sema_down after the donation.
AcquireDown ==
  /\ fault = "none" /\ ~intr_context
  /\ pc[running] = "donated"
  /\ Commit(sema_down(S0, acq[running]))

\* A thread dispatched again inside sema_down tests the semaphore again.
AcquireResume ==
  /\ fault = "none" /\ ~intr_context
  /\ pc[running] = "acquire"
  /\ Commit(sema_down(S0, acq[running]))

LockRelease(l) ==
  /\ CanCallMore
  /\ holder[l] = running
  /\ \E r \in lock_release(SC, l) : Commit(r)

\* Interrupts are on: the running thread is between calls, or between the
\* donation and sema_down in lock_acquire, or in thread_start after
\* intr_enable, or is the idle thread outside its intr_disable .. hlt
\* sequence, or halted.
InterruptsOn ==
  /\ ~intr_context
  /\ pc[running] \in LevelOnAt

\* The timer interrupt handler: ticks++, thread_tick(), thread_awake(ticks).
\* An interrupt ends the idle thread's hlt.
TimerInterrupt ==
  /\ fault = "none"
  /\ InterruptsOn
  /\ ticks < MaxTicks
  /\ LET s1 == [S0 EXCEPT !.intr_context = TRUE,
                          !.intr_level = "OFF",
                          !.ticks = ticks + 1,
                          !.pc[running] = IF @ = "idle_hlt" THEN "idle_block"
                                          ELSE @]
     IN Commit(thread_awake(thread_tick(s1), ticks + 1))

\* The return from the interrupt: thread_yield() if the handler asked.
IntrReturn ==
  /\ fault = "none"
  /\ intr_context
  /\ LET s1 == [S0 EXCEPT !.intr_context = FALSE, !.yield_on_return = FALSE]
         r == IF yield_on_return THEN thread_yield(s1) ELSE s1
     IN Commit(IF r.running = running THEN [r EXCEPT !.intr_level = "ON"]
               ELSE r)

Next ==
  \/ ThreadStart
  \/ StartWait
  \/ IdleStart
  \/ IdleUp
  \/ IdleBlock
  \/ Resume
  \/ \E p \in Prios : Create(p)
  \/ Yield
  \/ Exit
  \/ \E p \in Prios : SetPriority(p)
  \/ \E d \in SleepAhead : Sleep(d)
  \/ \E l \in Locks : LockAcquire(l)
  \/ AcquireDown
  \/ AcquireResume
  \/ \E l \in Locks : LockRelease(l)
  \/ TimerInterrupt
  \/ IntrReturn

Spec == Init /\ [][Next]_vars

---------------------------------------------------------------------------
(* The donation walk on holder chains of every length up to MaxChain.      *)
(* The initial states are those a chain is built in: thread n + 2 took     *)
(* lock n and went to sleep, then thread n + 1 took lock n - 1 and blocked *)
(* on lock n, and so on down to thread 3, which holds lock 1; a further    *)
(* thread sleeps and holds nothing.  The initial thread then asks for      *)
(* lock 1.                                                                 *)

ChainThreads == 1..(MaxChain + 3)
ChainLocks == 1..MaxChain

InitChain ==
  \E n \in 1..MaxChain, pA \in Prios, q \in Prios, b \in Prios :
    LET holders == 3..(n + 2)
        last == n + 2
        other == n + 3
    IN
    /\ status = [t \in ChainThreads |->
                   IF t = 1 THEN "RUNNING"
                   ELSE IF t <= other THEN "BLOCKED" ELSE "NONE"]
    /\ priority = [t \in ChainThreads |->
                     IF t = 1 THEN pA
                     ELSE IF t \in holders THEN q
                     ELSE IF t = other THEN b ELSE 0]
    /\ init_priority = [t \in ChainThreads |->
                          IF t = 1 THEN pA
                          ELSE IF t \in holders THEN q
                          ELSE IF t = other THEN b ELSE 0]
    /\ wait_on_lock = [t \in ChainThreads |->
                         IF t \in holders /\ t # last THEN t - 1 ELSE NoLock]
    /\ donations = [t \in ChainThreads |->
                      IF t \in holders /\ t # 3 THEN {t - 1} ELSE {}]
    /\ wakeup = [t \in ChainThreads |-> IF t \in {last, other} THEN 1 ELSE 0]
    /\ pc = [t \in ChainThreads |->
               IF t = 1 THEN "run"
               ELSE IF t = 2 THEN "idle_hlt"
               ELSE IF t \in {last, other} THEN "sleep"
               ELSE IF t \in holders THEN "acquire" ELSE "none"]
    /\ acq = [t \in ChainThreads |->
                IF t \in holders /\ t # last THEN t - 1 ELSE NoLock]
    /\ child = [t \in ChainThreads |-> NoThread]
    /\ child_higher = [t \in ChainThreads |-> FALSE]
    /\ ready_list = <<>>
    /\ sleep_list = <<last, other>>
    /\ destruction_req = <<>>
    /\ running = 1
    /\ idle_thread = 2
    /\ thread_ticks = 0
    /\ next_tid = other + 1
    /\ holder = [l \in ChainLocks |-> IF l <= n THEN l + 2 ELSE NoThread]
    /\ value = [l \in ChainLocks |-> IF l <= n THEN 0 ELSE 1]
    /\ waiters = [l \in ChainLocks |->
                    IF 2 <= l /\ l <= n THEN <<l + 1>> ELSE <<>>]
    /\ ticks = 0
    /\ intr_context = FALSE
    /\ yield_on_return = FALSE
    /\ scheduled = FALSE
    /\ calls = [t \in ChainThreads |-> 0]
    /\ intr_level = "ON"
    /\ tid_error = FALSE
    /\ sp_donors = [t \in ChainThreads |-> {}]
    /\ sched_tick = 0
    /\ front_of_empty = FALSE
    /\ fault = "none"

NextChain ==
  \/ (running = initial_thread /\ LockAcquire(1))
  \/ AcquireDown

SpecChain == InitChain /\ [][NextChain]_vars

---------------------------------------------------------------------------
(* The lock protocol without the timer: from the same initial state, the   *)
(* threads create threads, set their priority and acquire and release      *)
(* locks, each thread function making up to MaxLockCalls calls.            *)

CanLockCall == CanCall /\ calls[running] < MaxLockCalls

CreateL(prio) ==
  /\ CanLockCall
  /\ next_tid \in Threads
  /\ Commit(thread_create(SC, prio, "new"))

SetPriorityL(new) ==
  /\ CanLockCall
  /\ \E r \in thread_set_priority(SC, new) : Commit(r)

AcquireL(l) ==
  /\ CanLockCall
  /\ holder[l] # running
  /\ Commit(lock_acquire(SC, l))

ReleaseL(l) ==
  /\ CanLockCall
  /\ holder[l] = running
  /\ \E r \in lock_release(SC, l) : Commit(r)

NextLock ==
  \/ ThreadStart
  \/ StartWait
  \/ IdleStart
  \/ IdleUp
  \/ IdleBlock
  \/ Resume
  \/ \E p \in LockPrios : CreateL(p)
  \/ \E p \in LockPrios : SetPriorityL(p)
  \/ \E l \in Locks : AcquireL(l)
  \/ AcquireDown
  \/ AcquireResume
  \/ \E l \in Locks : ReleaseL(l)

SpecLock == Init /\ [][NextLock]_vars

---------------------------------------------------------------------------
(* Thread creation with and without a free page, without the timer and     *)
(* the locks.                                                              *)

CreateNoPage ==
  /\ CanCallMore
  /\ Commit(thread_create_no_page(SC))

NextCreate ==
  \/ ThreadStart
  \/ StartWait
  \/ IdleStart
  \/ IdleUp
  \/ IdleBlock
  \/ Resume
  \/ \E p \in Prios : Create(p)
  \/ CreateNoPage
  \/ Yield
  \/ Exit
  \/ \E p \in Prios : SetPriority(p)

SpecCreate == Init /\ [][NextCreate]_vars

---------------------------------------------------------------------------
(* thread_test_max_priority statement by statement: it runs with           *)
(* interrupts on, so the timer interrupt can come before list_empty, and   *)
(* between list_empty and list_front.                                      *)

\* thread_create up to thread_unblock; the caller is then at the start of
\* thread_test_max_priority.
CreateT(prio) ==
  /\ CanCallMore
  /\ next_tid \in Threads
  /\ Commit([thread_create_unblock(SC, prio, "new")
               EXCEPT !.pc[running] = "test_empty"])

\* thread_set_priority up to refresh_priority; the caller is then at the
\* start of thread_test_max_priority.
SetPriorityT(new) ==
  /\ CanCallMore
  /\ \E r \in thread_set_priority_refresh(SC, new) :
       Commit([r EXCEPT !.pc[running] = "test_empty"])

TestEmpty ==
  /\ fault = "none" /\ ~intr_context
  /\ pc[running] = "test_empty"
  /\ Commit(test_max_priority_empty(S0))

TestFront ==
  /\ fault = "none" /\ ~intr_context
  /\ pc[running] = "test_front"
  /\ \E r \in test_max_priority_front(S0) : Commit(r)

NextTest ==
  \/ ThreadStart
  \/ StartWait
  \/ IdleStart
  \/ IdleUp
  \/ IdleBlock
  \/ Resume
  \/ \E p \in Prios : CreateT(p)
  \/ \E p \in Prios : SetPriorityT(p)
  \/ TestEmpty
  \/ TestFront
  \/ Exit
  \/ \E d \in SleepAhead : Sleep(d)
  \/ TimerInterrupt
  \/ IntrReturn

SpecTest == Init /\ [][NextTest]_vars

---------------------------------------------------------------------------
(* Properties *)

Live(t) == status[t] \in {"RUNNING", "READY", "BLOCKED", "DYING"}

Pos(q, t) == CHOOSE i \in 1..Len(q) : q[i] = t

Sorted(q, pri) == \A i \in 1..(Len(q) - 1) : pri[q[i]] >= pri[q[i + 1]]

\* C1: whenever a step ends in schedule(), the thread it picked has an
\* effective priority at least that of every thread whose status is READY.
C1_PickedOutranksReady ==
  scheduled =>
    \A t \in Threads : status[t] = "READY" => priority[running] >= priority[t]

\* C2: the ready list is sorted by non-increasing effective priority.
C2_ReadySorted == Sorted(ready_list, priority)

\* C3: a live thread's effective priority is never below its init priority.
C3_PriorityAtLeastInit ==
  \A t \in Threads : Live(t) => priority[t] >= init_priority[t]

\* C4: a live thread's effective priority is the maximum of its init
\* priority and the effective priorities of the threads in its donations.
C4_PriorityIsMaxOfDonations ==
  \A t \in Threads :
    Live(t) =>
      priority[t] =
        Max({init_priority[t]} \cup {priority[d] : d \in donations[t]})

\* C5: exactly one thread has status RUNNING, it is the thread the CPU is
\* on, and it is not in the ready list.
C5_OneRunning ==
  /\ {t \in Threads : status[t] = "RUNNING"} = {running}
  /\ running \notin Range(ready_list)

C5_Witness ==
  /\ scheduled
  /\ Len(ready_list) >= 2
  /\ \E t \in Range(ready_list) : pc[t] = "yield"

InsertedInOrder ==
  \A t \in Range(ready_list') \ Range(ready_list) :
    \A u \in Range(ready_list') \cap Range(ready_list) :
      IF priority'[u] >= priority'[t]
      THEN Pos(ready_list', u) < Pos(ready_list', t)
      ELSE Pos(ready_list', t) < Pos(ready_list', u)

\* A step that ends in schedule() and leaves the same thread running is a
\* yield that picked the yielding thread again (the idle thread apart,
\* which blocks with the ready list empty): the thread went behind no
\* ready thread, so every ready thread must be of strictly lower priority.
YieldGoesBehindEquals ==
  (scheduled' /\ running' = running /\ running # idle_thread) =>
    \A u \in Range(ready_list') : priority'[u] < priority'[running]

\* C7: every insertion into the ready list is ordered by priority and FIFO
\* among equal priorities, and a thread that yields is not dispatched ahead
\* of a ready thread of its own or a higher priority.
C7_InsertFifo == [][InsertedInOrder /\ YieldGoesBehindEquals]_vars

\* The insertion order fails only from an unsorted ready list: from a
\* sorted one every step inserts in order.
FifoFromSorted ==
  [][Sorted(ready_list, priority) =>
       (InsertedInOrder /\ YieldGoesBehindEquals)]_vars

\* C8: a thread inside sleep(w) is BLOCKED and in the sleep list as long as
\* no awake(now) with now >= w has been called (ticks is the argument of
\* the last awake call).
C8_SleepUntilWake ==
  \A t \in Threads :
    (pc[t] = "sleep" /\ wakeup[t] > ticks) =>
      (status[t] = "BLOCKED" /\ t \in Range(sleep_list))

C8_Witness ==
  /\ intr_context
  /\ \E t \in Threads : pc[t] = "sleep" /\ wakeup[t] > ticks /\ ticks >= 1

\* C9: when awake(now) returns (the handler body is done), every sleeper
\* with wakeup <= now is out of the sleep list, READY and in the ready
\* list, and every sleeper with wakeup > now is in the sleep list, BLOCKED.
C9_AwakePost ==
  intr_context =>
    \A t \in Threads :
      pc[t] = "sleep" =>
        IF wakeup[t] <= ticks
        THEN /\ t \notin Range(sleep_list)
             /\ status[t] = "READY"
             /\ t \in Range(ready_list)
        ELSE /\ t \in Range(sleep_list)
             /\ status[t] = "BLOCKED"

C9_Witness ==
  /\ intr_context
  /\ \E t1, t2 \in Threads :
       /\ pc[t1] = "sleep" /\ wakeup[t1] = ticks /\ status[t1] = "READY"
       /\ pc[t2] = "sleep" /\ wakeup[t2] > ticks /\ t2 \in Range(sleep_list)

\* The holder at depth k of the chain that starts at lock l: the holder of
\* l, then the holder of the lock that holder waits on, and so on;
\* NoThread where the chain has ended.
RECURSIVE ChainHolder(_, _, _, _)
ChainHolder(hold, wait, l, k) ==
  IF l = NoLock THEN NoThread
  ELSE IF k = 1 THEN hold[l]
  ELSE ChainHolder(hold, wait, wait[hold[l]], k - 1)

\* The holders within the first DONATION_DEPTH levels of that chain.
Donees(hold, wait, l) ==
  {ChainHolder(hold, wait, l, k) : k \in 1..DONATION_DEPTH} \ {NoThread}

\* C10: when a thread blocks on a held lock, the donation sets the
\* priority of the holders at depths 1..8 of the chain to the donor's
\* priority and changes the priority of no other thread.
C10_DonationChain ==
  [][(pc[running] = "run" /\ pc'[running] = "donated") =>
       \A t \in Threads :
         priority'[t] =
           IF t \in Donees(holder, wait_on_lock, acq'[running])
           THEN priority[running]
           ELSE priority[t]]_vars

\* A chain of ten holders: the eighth got the donor's priority, the ninth
\* and tenth kept theirs.
C10_Witness ==
  /\ pc[running] = "donated"
  /\ ChainHolder(holder, wait_on_lock, acq[running], 10) # NoThread
  /\ priority[ChainHolder(holder, wait_on_lock, acq[running], 8)]
       = priority[running]
  /\ priority[ChainHolder(holder, wait_on_lock, acq[running], 9)]
       # priority[running]
  /\ priority[ChainHolder(holder, wait_on_lock, acq[running], 10)]
       # priority[running]

\* The running thread releases lock l in this step.
Releases(l) == holder[l] = running /\ holder'[l] # running

\* C11: when a holder releases lock L, its donations lose exactly the
\* donors that wait on L, and its priority is its init_priority when no
\* donor remains and else the greatest of its init_priority and the
\* remaining donors' priorities.
C11_ReleaseRestores ==
  [][\A l \in Locks :
       Releases(l) =>
         /\ donations'[running] =
              {d \in donations[running] : wait_on_lock[d] # l}
         /\ priority'[running] =
              Max({init_priority[running]}
                    \cup {priority[d] : d \in donations'[running]})]_vars

\* C12: after thread_set_priority(n) by a thread T whose priority is that
\* of a donor d with n < d's priority, T's init_priority is n and T's
\* priority does not fall below d's for as long as d is in T's donations;
\* once a release leaves T without donors, T's priority is its
\* init_priority.
C12_SetPriorityUnderDonation ==
  /\ [](\A t \in Threads :
          \A d \in sp_donors[t] \cap donations[t] :
            init_priority[t] < priority[d] => priority[t] >= priority[d])
  /\ [][\A l \in Locks :
          (Releases(l) /\ sp_donors[running] # {} /\ donations'[running] = {})
            => priority'[running] = init_priority[running]]_vars

\* C13: every thread that waits on a lock with a holder is in that
\* holder's donations.
C13_WaiterIsDonor ==
  \A t \in Threads :
    (wait_on_lock[t] # NoLock /\ holder[wait_on_lock[t]] # NoThread) =>
      t \in donations[holder[wait_on_lock[t]]]

\* The threads thread_unblock makes ready in this step.
Unblocked == {t \in Threads : status[t] = "BLOCKED" /\ status'[t] = "READY"}

\* C14: a step that only calls thread_unblock (thread_awake in the timer
\* handler, whose level is off; sema_up(idle_started) in idle(), level on)
\* leaves the caller running, whatever the priority of the woken threads,
\* leaves them READY in the ready list, leaves the interrupt level as it
\* was at the call, and changes no other thread's status and no priority.
C14_UnblockFrame ==
  [][(Unblocked # {} /\ (intr_context' \/ pc[running] = "idle_up")) =>
       /\ running' = running
       /\ status'[running] = "RUNNING"
       /\ Unblocked \subseteq Range(ready_list')
       /\ intr_level' = (IF intr_context' THEN "OFF" ELSE intr_level)
       /\ \A u \in Threads \ Unblocked : status'[u] = status[u]
       /\ priority' = priority]_vars

\* The handler has just woken a sleeper of higher priority than the
\* running thread.
C14_Witness ==
  /\ intr_context
  /\ intr_level = "OFF"
  /\ running # idle_thread
  /\ \E t \in Range(ready_list) :
       /\ pc[t] = "sleep" /\ wakeup[t] = ticks
       /\ priority[t] > priority[running]

\* The running thread calls thread_set_priority in this step: its
\* init_priority changes, or it ends switched out inside the call.
SetPriorityStep ==
  /\ pc[running] = "run"
  /\ \/ init_priority'[running] # init_priority[running]
     \/ pc'[running] = "setprio"

\* C15: thread_set_priority yields to the front of the ready list exactly
\* when the caller's priority after the call is strictly lower than the
\* front's; otherwise the caller goes on running and the ready list is
\* untouched.
C15_SetPriorityYields ==
  [][SetPriorityStep =>
       IF ready_list # <<>>
          /\ priority'[running] < priority[Head(ready_list)]
       THEN /\ running' = Head(ready_list)
            /\ status'[running] = "READY"
            /\ pc'[running] = "setprio"
            /\ running \in Range(ready_list')
       ELSE /\ running' = running
            /\ pc'[running] = "run"
            /\ ready_list' = ready_list]_vars

\* The caller has lowered its init_priority below the front of the ready
\* list, and a donation keeps it at or above the front: it did not yield.
C15_Witness ==
  /\ pc[running] = "run"
  /\ sp_donors[running] \cap donations[running] # {}
  /\ ready_list # <<>>
  /\ init_priority[running] < priority[Head(ready_list)]
  /\ priority[running] >= priority[Head(ready_list)]
  /\ \E t \in Threads : pc[t] = "setprio" /\ status[t] = "READY"

\* C16: a thread_create that finds no page returns TID_ERROR and changes
\* nothing: the tid counter, every thread's status, priority and position,
\* the lists and the running thread are as before, and the caller goes on.
C16_CreateNoPage ==
  [][tid_error' =>
       /\ next_tid' = next_tid
       /\ status' = status
       /\ priority' = priority
       /\ init_priority' = init_priority
       /\ pc' = pc
       /\ ready_list' = ready_list
       /\ sleep_list' = sleep_list
       /\ destruction_req' = destruction_req
       /\ running' = running
       /\ pc'[running] = "run"
       /\ intr_level' = intr_level]_vars

\* A create has just failed with a thread waiting in the ready list and a
\* thread slot still unused.
C16_Witness ==
  /\ tid_error
  /\ ready_list # <<>>
  /\ next_tid \in Threads

\* The thread made by thread_start to run idle().
IsIdle(t) ==
  pc[t] \in {"idle_new", "idle_start", "idle_up", "idle_block", "idle_hlt"}

\* C17 as stated: from its creation on the idle thread is never in the
\* ready list, and a schedule() that dispatches it found the ready list
\* empty.
C17_IdleNeverReady ==
  /\ [](\A t \in Threads : IsIdle(t) => t \notin Range(ready_list))
  /\ [][\A t \in Threads :
          (IsIdle(t) /\ scheduled' /\ running' = t) =>
            (ready_list = <<>> /\ ready_list' = <<>>)]_vars

\* C17, amended: from the moment idle() has stored itself in idle_thread
\* the idle thread is never in the ready list, and a schedule() that
\* dispatches it found the ready list empty.  (thread_start puts the new
\* idle thread on the ready list, and its first dispatch takes it from
\* there.)
C17_IdleNeverReadyOnceStored ==
  /\ [](idle_thread # NoThread => idle_thread \notin Range(ready_list))
  /\ [][(idle_thread # NoThread /\ scheduled' /\ running' = idle_thread) =>
          (ready_list = <<>> /\ ready_list' = <<>>)]_vars

\* The idle thread has yielded at the end of a time slice: it is READY,
\* another thread runs, and the idle thread is not in the ready list.
C17_Witness ==
  /\ idle_thread # NoThread
  /\ status[idle_thread] = "READY"
  /\ running # idle_thread
  /\ idle_thread \notin Range(ready_list)

\* C18: the READY threads are exactly the threads in the ready list, and
\* no thread is in the ready list twice.
C18_ReadyIffListed ==
  /\ {t \in Threads : status[t] = "READY"} = Range(ready_list)
  /\ Cardinality(Range(ready_list)) = Len(ready_list)

\* The same for every thread but the idle thread.
ReadyIffListedButIdle ==
  /\ {t \in Threads : status[t] = "READY"} \ {idle_thread}
       = Range(ready_list)
  /\ Cardinality(Range(ready_list)) = Len(ready_list)

\* The number of the three lists thread t is in.
ListsHolding(t) ==
  Cardinality({q \in {"ready", "sleep", "destruction"} :
                 \/ q = "ready" /\ t \in Range(ready_list)
                 \/ q = "sleep" /\ t \in Range(sleep_list)
                 \/ q = "destruction" /\ t \in Range(destruction_req)})

\* C19: a thread is in at most one of the ready, sleep and destruction
\* lists; a thread in the sleep list is BLOCKED; a thread in the
\* destruction list is DYING; and a thread that is DYING or freed is never
\* running again.
C19_ListsDisjoint ==
  /\ [](\A t \in Threads :
          /\ ListsHolding(t) <= 1
          /\ t \in Range(sleep_list) => status[t] = "BLOCKED"
          /\ t \in Range(destruction_req) => status[t] = "DYING")
  /\ [][\A t \in Threads :
          status[t] \in {"DYING", "FREED"} =>
            (status'[t] \in {"DYING", "FREED"} /\ running' # t)]_vars

\* The three lists are non-empty at once.
C19_Witness ==
  /\ ready_list # <<>>
  /\ sleep_list # <<>>
  /\ destruction_req # <<>>

\* A thread that becomes DYING and is not the initial thread is on the
\* destruction list, its page not freed, after the switch away from it.
DyingIsQueued ==
  [][\A t \in Threads :
       (status[t] # "DYING" /\ status'[t] = "DYING" /\ t # initial_thread) =>
         (t \in Range(destruction_req') /\ running' # t)]_vars

\* Every entry into the scheduler frees every page that was queued.
SchedulerEntryFrees ==
  [][scheduled' =>
       \A t \in Range(destruction_req) :
         status'[t] = "FREED" /\ t \notin Range(destruction_req')]_vars

\* The initial thread is never queued for destruction and never freed.
InitialNeverFreed ==
  [](/\ initial_thread \notin Range(destruction_req)
     /\ status[initial_thread] # "FREED")

\* C20: a DYING thread other than the initial thread is queued on the
\* destruction list, not freed, when the scheduler switches away from it;
\* every queued page is freed at the next entry into the scheduler,
\* whichever operation enters it (block, yield or exit); the initial thread
\* is never queued or freed.
C20_DestructionQueue ==
  /\ DyingIsQueued
  /\ SchedulerEntryFrees
  /\ InitialNeverFreed

\* C20, restricted to the entries made through do_schedule (yield, exit):
\* those free every queued page.
DoScheduleFrees ==
  [][(scheduled' /\ status'[running] \in {"READY", "DYING"}) =>
       \A t \in Range(destruction_req) :
         status'[t] = "FREED" /\ t \notin Range(destruction_req')]_vars

\* A step of the timer interrupt handler.
TickStep == ticks' = ticks + 1

\* C22: thread_ticks is 0 after every scheduling decision and one more
\* after each tick, so it is the number of ticks since the running thread
\* was last scheduled; the tick handler requests a yield on interrupt
\* return exactly when the incremented thread_ticks is >= TIME_SLICE, that
\* is on the 4th tick since the last scheduling decision and on every
\* later one, and never on ticks 1 to 3.
C22_TimeSlice ==
  /\ [](thread_ticks = ticks - sched_tick)
  /\ [][scheduled' => thread_ticks' = 0]_vars
  /\ [][TickStep =>
          /\ thread_ticks' = thread_ticks + 1
          /\ yield_on_return' <=> (thread_ticks' >= TIME_SLICE)
          /\ yield_on_return' <=> (ticks' - sched_tick' >= TIME_SLICE)]_vars
  /\ [][(~TickStep /\ ~scheduled') => thread_ticks' = thread_ticks]_vars

\* The handler has requested a yield on the 4th tick of a thread other
\* than the idle thread.
C22_Witness ==
  /\ intr_context
  /\ yield_on_return
  /\ thread_ticks = TIME_SLICE
  /\ ticks - sched_tick = TIME_SLICE
  /\ running # idle_thread

\* C21: no operation reads or modifies the ready, sleep or destruction
\* list while interrupts are enabled: the running thread is never inside
\* thread_test_max_priority, about to read the ready list, with interrupts
\* on; and the emptiness check and the read of the front see the same
\* list, so the front of an empty ready list is never read.
C21_QueuesWithInterruptsOff ==
  /\ (~intr_context /\ pc[running] \in {"test_empty", "test_front"})
       => intr_level = "OFF"
  /\ ~front_of_empty

\* The second half of C21 alone: the front of an empty ready list is never
\* read.
FrontNeverReadFromEmpty == ~front_of_empty

\* The interrupt level is on exactly where the running thread is at a
\* position that runs with interrupts on, outside the interrupt handler.
LevelMatches ==
  (intr_level = "ON") <=> InterruptsOn

\* Type invariant.
TypeOK ==
  /\ running \in Threads
  /\ \A t \in Threads : status[t] \in {"NONE", "RUNNING", "READY", "BLOCKED", "DYING", "FREED"}

=============================================================================
